---- MODULE Spec2Model ----
(***************************************************************************)
(* Model of source_greenhouse/client.py: the paginator generator, the      *)
(* Client.list resolver, the access prober (get_accessible_endpoints),     *)
(* health_check and the filtered streams property.                         *)
(*                                                                         *)
(* A name is a sequence of tokens in which "." is the separator token, so  *)
(* that name.split(".") is a computation.  A python dict (keyword params) is  *)
(* function whose DOMAIN is its key set.  A record of the remote API is    *)
(* the path <<page, position, ...>> that locates it; the same path is the  *)
(* record's "id" and names the child accessor scoped to that record.       *)
(***************************************************************************)
EXTENDS Integers, Sequences, FiniteSets, TLC

VARIABLES
    op,        \* the entry point invoked in this behaviour ("none" before)
    name,      \* list(): the requested entity name
    kwargs,    \* list(): the caller's keyword arguments
    shape,     \* remote data: pages and rows per page of each level
    gen,       \* state of the generator: none/suspended/running/done/raised
    stack,     \* generator frames, innermost last
    cursor,    \* accessor -> number of the page fetched last (0: none)
    calls,     \* fetches issued, in order
    out,       \* records delivered to the consumer, in order
    pulls,     \* number of times the consumer asked for the next record
    err,       \* the error that left the entry point (NoError if none)
    base,      \* prober: what the credential does on most endpoints
    gae,       \* get_accessible_endpoints: none/loop/returned/raised
    eidx,         \* get_accessible_endpoints: index of the next entity
    accessible_endpoints,  \* get_accessible_endpoints: the list built
    probes,    \* probes issued, in order, with their outcomes
    ret,       \* get_accessible_endpoints/health_check: none/returned/raised
    alive,     \* health_check: first component of the result
    error_msg, \* health_check: second component of the result
    declared,  \* streams: the descriptors of super().streams
    sidx,      \* streams: index of the next declared descriptor
    yielded    \* streams: descriptors delivered, in order

travVars == <<name, kwargs, shape, pulls, stack, cursor, calls, out>>

probeVars == <<base, gae, eidx, accessible_endpoints, probes>>

healthVars == <<alive, error_msg>>

streamVars == <<declared, sidx, yielded>>

vars == <<op, gen, err, ret, travVars, probeVars, healthVars, streamVars>>

----------------------------------------------------------------------------
(* Bounds *)
MaxPages == 2
MaxRows == 2
MaxFlips == 2

----------------------------------------------------------------------------
(* Program constants *)
DEFAULT_ITEMS_PER_PAGE == 100

Dot == "."

\* line 133: the text that marks a permission error
PermissionText == <<"This API Key does not have permission for this endpoint">>

\* line 145: the message of health_check when nothing is accessible
GrantMessage ==
    <<"Your API Key does not have permission for any existing endpoints.",
      "Please grant read permissions for required streams/endpoints">>

ENTITIES ==
    << <<"applications">>,
       <<"candidates">>,
       <<"close_reasons">>,
       <<"degrees">>,
       <<"departments">>,
       <<"job_posts">>,
       <<"jobs">>,
       <<"offers">>,
       <<"scorecards">>,
       <<"users">>,
       <<"custom_fields">>,
       <<"demographics_question_sets">>,
       <<"demographics_questions">>,
       <<"demographics_answer_options">>,
       <<"demographics_answers">>,
       <<"applications", Dot, "demographics_answers">>,
       <<"demographics_question_sets", Dot, "questions">>,
       <<"demographics_answers", Dot, "answer_options">>,
       <<"interviews">>,
       <<"applications", Dot, "interviews">>,
       <<"sources">>,
       <<"rejection_reasons">>,
       <<"jobs", Dot, "openings">>,
       <<"job_stages">>,
       <<"jobs", Dot, "stages">> >>

----------------------------------------------------------------------------
(* Python helpers *)

\* dict without key k: params.pop(k, None) as far as the dict is concerned
DictPop(d, k) == [x \in (DOMAIN d) \ {k} |-> d[x]]

\* d[k] = v
DictPut(d, k, v) == [x \in (DOMAIN d) \cup {k} |-> IF x = k THEN v ELSE d[x]]

EmptyDict == [x \in {} |-> 0]

\* an exception: its class and str(error) as a sequence of words
Error(type, msg) == [type |-> type, msg |-> msg]

NoError == Error("none", <<>>)

\* Optional[str]
None == [isNone |-> TRUE, str |-> <<>>]

Str(m) == [isNone |-> FALSE, str |-> m]

\* t in s, for strings as sequences of words
Contains(s, t) ==
    \E k \in 1..(Len(s) - Len(t) + 1) : SubSeq(s, k, k + Len(t) - 1) = t

\* index of the first separator token in s, 0 if there is none
RECURSIVE FirstDot(_, _)
FirstDot(s, i) ==
    IF i > Len(s) THEN 0
    ELSE IF s[i] = Dot THEN i
    ELSE FirstDot(s, i + 1)

\* str.split("."): the segments between separator tokens
RECURSIVE Split(_)
Split(s) ==
    LET d == FirstDot(s, 1) IN
    IF d = 0 THEN <<s>>
    ELSE <<SubSeq(s, 1, d - 1)>> \o Split(SubSeq(s, d + 1, Len(s)))

----------------------------------------------------------------------------
(* The remote API behind the resource accessors (grnhse HarvestObject).    *)
(* An accessor is named by the path of the parent record it is scoped to:  *)
(* <<>> is the root accessor, <<p, j>> the child accessor of root record   *)
(* <<p, j>>.                                                               *)

Level(acc) == Len(acc) \div 2

NPages(acc) == shape.pages[Level(acc) + 1]

NRows(acc) == shape.rows[Level(acc) + 1]

\* the batch returned by the fetch of page p of accessor acc
Page(acc, p) == [j \in 1..NRows(acc) |-> acc \o <<p, j>>]

\* request.records_remaining
records_remaining(acc) == cursor[acc] < NPages(acc)

RootAcc == <<>>

Shapes ==
    [pages : [1..2 -> 1..MaxPages], rows : [1..2 -> 0..MaxRows]]

----------------------------------------------------------------------------
(* Inputs of list() *)

Names ==
    { <<"jobs">>,
      <<"applications", Dot, "interviews">>,
      <<"jobs", Dot, "openings", Dot, "stages">> }

KwargsSet ==
    { EmptyDict,
      [updated_after |-> "2021-01-01"],
      [per_page |-> 50] }

----------------------------------------------------------------------------
(* Generator frames *)

Frame(req, params) ==
    [req |-> req, params |-> params, pc |-> "get",
     rows |-> <<>>, nested_names |-> <<>>]

\* one fetch on an accessor: the method, its arguments and what it raised
Call(method, acc, params, error) ==
    [op |-> method, acc |-> acc, params |-> params, error |-> error]

\* what a fetch may raise (grnhse HTTPError)
FetchErrors ==
    { Error("HTTPError", <<"500", "Internal Server Error">>),
      Error("HTTPError", <<"429", "Too Many Requests">>) }

Top == stack[Len(stack)]

SetTop(f) == [stack EXCEPT ![Len(stack)] = f]

Pop == SubSeq(stack, 1, Len(stack) - 1)

Running == gen = "running" /\ Len(stack) > 0

----------------------------------------------------------------------------
Init ==
    /\ op = "none"
    /\ name = <<>>
    /\ kwargs = EmptyDict
    /\ shape = [pages |-> <<1, 1>>, rows |-> <<0, 0>>]
    /\ gen = "none"
    /\ stack = <<>>
    /\ cursor = EmptyDict
    /\ calls = <<>>
    /\ out = <<>>
    /\ pulls = 0
    /\ err = NoError
    /\ base = "ok"
    /\ gae = "none"
    /\ eidx = 0
    /\ accessible_endpoints = <<>>
    /\ probes = <<>>
    /\ ret = "none"
    /\ alive = TRUE
    /\ error_msg = None
    /\ declared = <<>>
    /\ sidx = 0
    /\ yielded = <<>>

\* faulty variant of ListCall: the body starts running at the call, before
\* the consumer asks for anything
ListCall_Eager ==
    /\ op = "none"
    /\ \E n \in Names, kw \in KwargsSet, sh \in Shapes :
        /\ name' = n
        /\ kwargs' = kw
        /\ shape' = sh
    /\ op' = "list"
    /\ gen' = "running"
    /\ stack' = <<[pc |-> "list"]>>
    /\ UNCHANGED <<pulls, cursor, calls, out, err, ret, probeVars, healthVars, streamVars>>

\* A call of Client.list(name, **kwargs): creates the generator; no line of
\* the body runs before the first pull.
ListCall ==
    /\ op = "none"
    /\ \E n \in Names, kw \in KwargsSet, sh \in Shapes :
        /\ name' = n
        /\ kwargs' = kw
        /\ shape' = sh
    /\ op' = "list"
    /\ gen' = "suspended"
    /\ stack' = <<[pc |-> "list"]>>
    /\ UNCHANGED <<pulls, cursor, calls, out, err, ret, probeVars, healthVars, streamVars>>

\* The consumer's next(): control passes to the generator.
Pull ==
    /\ op \in {"list", "streams"}
    /\ gen = "suspended"
    /\ gen' = "running"
    /\ pulls' = pulls + 1
    /\ UNCHANGED <<op, name, kwargs, shape, stack, cursor, calls, out, err, ret, probeVars, healthVars, streamVars>>

\* Body of Client.list up to the call of paginator on the root accessor.
ListBody ==
    /\ Running
    /\ Top.pc = "list"
    /\ LET name_parts == Split(name)
           nested_names == Tail(name_parts)
           kw1 == DictPut(kwargs, "per_page", DEFAULT_ITEMS_PER_PAGE)
           kw2 == IF nested_names # <<>>
                  THEN DictPut(kw1, "nested_names", nested_names)
                  ELSE kw1
       IN stack' = <<[pc |-> "yield_from"], Frame(RootAcc, kw2)>>
    /\ UNCHANGED <<op, name, kwargs, shape, pulls, gen, cursor, calls, out, err, ret, probeVars, healthVars, streamVars>>

\* paginator, from the initial fetch to the first loop: request.get of the params,
\* then the handling of nested_names.
GetFirst ==
    /\ Running
    /\ Top.pc = "get"
    /\ LET f == Top
           rows == Page(f.req, 1)
           popped == DictPop(f.params, "nested_names")
       IN
        /\ calls' = Append(calls, Call("get", f.req, f.params, NoError))
        /\ cursor' = DictPut(cursor, f.req, 1)
        /\ IF "nested_names" \in DOMAIN f.params
           THEN LET nested_names == f.params["nested_names"] IN
                IF Len(nested_names) > 1
                THEN \* params["nested_names"] is read after the pop: KeyError
                     /\ gen' = "raised"
                     /\ err' = Error("KeyError", <<"nested_names">>)
                     /\ stack' = <<>>
                ELSE /\ stack' = SetTop([f EXCEPT !.pc = "for", !.rows = rows,
                                           !.params = popped,
                                           !.nested_names = nested_names])
                     /\ UNCHANGED <<gen, err>>
           ELSE /\ stack' = SetTop([f EXCEPT !.pc = "yield", !.rows = rows])
                /\ UNCHANGED <<gen, err>>
    /\ UNCHANGED <<op, name, kwargs, shape, pulls, out, ret, probeVars, healthVars, streamVars>>

\* request.get raises: the error leaves every frame of the generator
GetFirstRaises ==
    /\ Running
    /\ Top.pc = "get"
    /\ \E e \in FetchErrors :
        /\ calls' = Append(calls, Call("get", Top.req, Top.params, e))
        /\ err' = e
    /\ gen' = "raised"
    /\ stack' = <<>>
    /\ UNCHANGED <<op, name, kwargs, shape, pulls, cursor, out, ret, probeVars, healthVars, streamVars>>

\* faulty variant of ForRow: the rows are taken from the end of the batch
ForRow_LastFirst ==
    /\ Running
    /\ Top.pc = "for"
    /\ Top.rows # <<>>
    /\ LET f == Top
           row == f.rows[Len(f.rows)]
       IN stack' = Append(SetTop([f EXCEPT !.rows = SubSeq(f.rows, 1, Len(f.rows) - 1)]),
                          Frame(row, EmptyDict))
    /\ UNCHANGED <<op, name, kwargs, shape, pulls, gen, cursor, calls, out, err, ret, probeVars, healthVars, streamVars>>

\* for row in rows: the child accessor of the row's id and relation
\* nested_names[0] is handed to a new paginator, without params.
ForRow ==
    /\ Running
    /\ Top.pc = "for"
    /\ Top.rows # <<>>
    /\ LET f == Top
           row == Head(f.rows)
       IN stack' = Append(SetTop([f EXCEPT !.rows = Tail(f.rows)]),
                          Frame(row, EmptyDict))
    /\ UNCHANGED <<op, name, kwargs, shape, pulls, gen, cursor, calls, out, err, ret, probeVars, healthVars, streamVars>>

\* the for loop is exhausted
ForEnd ==
    /\ Running
    /\ Top.pc = "for"
    /\ Top.rows = <<>>
    /\ stack' = SetTop([Top EXCEPT !.pc = "while"])
    /\ UNCHANGED <<op, name, kwargs, shape, pulls, gen, cursor, calls, out, err, ret, probeVars, healthVars, streamVars>>

\* yield from rows: one record is delivered and the generator suspends
YieldRow ==
    /\ Running
    /\ Top.pc = "yield"
    /\ Top.rows # <<>>
    /\ out' = Append(out, Head(Top.rows))
    /\ stack' = SetTop([Top EXCEPT !.rows = Tail(Top.rows)])
    /\ gen' = "suspended"
    /\ UNCHANGED <<op, name, kwargs, shape, pulls, cursor, calls, err, ret, probeVars, healthVars, streamVars>>

\* yield from rows is exhausted
YieldEnd ==
    /\ Running
    /\ Top.pc = "yield"
    /\ Top.rows = <<>>
    /\ stack' = SetTop([Top EXCEPT !.pc = "while"])
    /\ UNCHANGED <<op, name, kwargs, shape, pulls, gen, cursor, calls, out, err, ret, probeVars, healthVars, streamVars>>

\* faulty variant of GetNext: the batch of get_next is dropped and the rows
\* of the previous page are delivered again
GetNext_StaleRows ==
    /\ Running
    /\ Top.pc = "while"
    /\ records_remaining(Top.req)
    /\ LET f == Top
           p == cursor[f.req] + 1
       IN
        /\ calls' = Append(calls, Call("get_next", f.req, EmptyDict, NoError))
        /\ cursor' = DictPut(cursor, f.req, p)
        /\ stack' = SetTop([f EXCEPT !.pc = "yield", !.rows = Page(f.req, p - 1)])
    /\ UNCHANGED <<op, name, kwargs, shape, pulls, gen, out, err, ret, probeVars, healthVars, streamVars>>

\* while request.records_remaining: rows = request.get_next(); yield from rows
GetNext ==
    /\ Running
    /\ Top.pc = "while"
    /\ records_remaining(Top.req)
    /\ LET f == Top
           p == cursor[f.req] + 1
       IN
        /\ calls' = Append(calls, Call("get_next", f.req, EmptyDict, NoError))
        /\ cursor' = DictPut(cursor, f.req, p)
        /\ stack' = SetTop([f EXCEPT !.pc = "yield", !.rows = Page(f.req, p)])
    /\ UNCHANGED <<op, name, kwargs, shape, pulls, gen, out, err, ret, probeVars, healthVars, streamVars>>

\* faulty variant of GetNextRaises: the error is swallowed and the
\* traversal ends as if the collection were exhausted
GetNextRaises_Swallowed ==
    /\ Running
    /\ Top.pc = "while"
    /\ records_remaining(Top.req)
    /\ \E e \in FetchErrors :
        calls' = Append(calls, Call("get_next", Top.req, EmptyDict, e))
    /\ gen' = "done"
    /\ stack' = <<>>
    /\ UNCHANGED <<op, name, kwargs, shape, pulls, cursor, out, err, ret, probeVars, healthVars, streamVars>>

\* request.get_next raises: the error leaves every frame of the generator
GetNextRaises ==
    /\ Running
    /\ Top.pc = "while"
    /\ records_remaining(Top.req)
    /\ \E e \in FetchErrors :
        /\ calls' = Append(calls, Call("get_next", Top.req, EmptyDict, e))
        /\ err' = e
    /\ gen' = "raised"
    /\ stack' = <<>>
    /\ UNCHANGED <<op, name, kwargs, shape, pulls, cursor, out, ret, probeVars, healthVars, streamVars>>

\* the paginator returns; the caller's yield from (or for loop) resumes
Return ==
    /\ Running
    /\ Top.pc = "while"
    /\ ~records_remaining(Top.req)
    /\ stack' = Pop
    /\ UNCHANGED <<op, name, kwargs, shape, pulls, gen, cursor, calls, out, err, ret, probeVars, healthVars, streamVars>>

\* Client.list's yield from paginator(...) is exhausted: the generator ends
ListEnd ==
    /\ Running
    /\ Top.pc = "yield_from"
    /\ gen' = "done"
    /\ stack' = <<>>
    /\ UNCHANGED <<op, name, kwargs, shape, pulls, cursor, calls, out, err, ret, probeVars, healthVars, streamVars>>

----------------------------------------------------------------------------
(* The access prober.  The outcome of a probe is the remote side's: the    *)
(* credential does `base` on most endpoints and something else on at most  *)
(* MaxFlips of them; any probe may also fail with another HTTP error.      *)

Range(s) == {s[k] : k \in 1..Len(s)}

\* the accessor names of the client object (HarvestClient._uris["direct"])
Direct == {e \in Range(ENTITIES) : FirstDot(e, 1) = 0}

DeniedMessage == <<"403">> \o PermissionText

FatalMessages ==
    { <<"401", "Invalid Basic Auth credentials">>,
      <<"500", "This API Key", "does not have permission">> }

HttpMessages == {DeniedMessage} \cup FatalMessages

Probe(key, outcome) == [key |-> key, params |-> EmptyDict, outcome |-> outcome]

ProbeClass(pr) ==
    IF pr.outcome = NoError THEN "ok"
    ELSE IF Contains(pr.outcome.msg, PermissionText) THEN "denied"
    ELSE "fatal"

Flips == Cardinality({k \in 1..Len(probes) : ProbeClass(probes[k]) # base})

Affordable(class) == class = base \/ class = "fatal" \/ Flips < MaxFlips

ProberActive ==
    /\ gae = "loop"
    /\ eidx \in 1..Len(ENTITIES)
    /\ op = "streams" => gen = "running"

\* get_accessible_endpoints is entered: logger, empty list, first entity
StartProber ==
    /\ gae' = "loop"
    /\ eidx' = 1
    /\ accessible_endpoints' = <<>>

\* an error leaves get_accessible_endpoints: health_check catches an
\* HTTPError; everything else leaves the entry point
Propagate(e) ==
    /\ gae' = "raised"
    /\ IF op = "health_check" /\ e.type = "HTTPError"
       THEN /\ alive' = FALSE
            /\ error_msg' = Str(e.msg)
            /\ ret' = "returned"
            /\ UNCHANGED <<err, gen>>
       ELSE /\ err' = e
            /\ ret' = IF op = "streams" THEN ret ELSE "raised"
            /\ gen' = IF op = "streams" THEN "raised" ELSE gen
            /\ UNCHANGED <<alive, error_msg>>

GetAccessibleEndpointsCall ==
    /\ op = "none"
    /\ op' = "get_accessible_endpoints"
    /\ \E b \in {"ok", "denied"} : base' = b
    /\ StartProber
    /\ UNCHANGED <<gen, err, ret, probes, travVars, healthVars, streamVars>>

\* faulty variant of ProbeOk: the entity is put in front of the list
ProbeOk_Prepend ==
    /\ ProberActive
    /\ Affordable("ok")
    /\ LET entity == ENTITIES[eidx] IN
        /\ probes' = Append(probes, Probe(entity, NoError))
        /\ accessible_endpoints' = <<entity>> \o accessible_endpoints
    /\ eidx' = eidx + 1
    /\ UNCHANGED <<op, gen, err, ret, base, gae, travVars, healthVars, streamVars>>

\* getattr(self._client, entity).get() returns
ProbeOk ==
    /\ ProberActive
    /\ Affordable("ok")
    /\ LET entity == ENTITIES[eidx] IN
        /\ probes' = Append(probes, Probe(entity, NoError))
        /\ accessible_endpoints' = Append(accessible_endpoints, entity)
    /\ eidx' = eidx + 1
    /\ UNCHANGED <<op, gen, err, ret, base, gae, travVars, healthVars, streamVars>>

\* faulty variant of ProbeHTTPError: every HTTPError is passed over
ProbeHTTPError_SwallowAll ==
    /\ ProberActive
    /\ \E msg \in HttpMessages :
        LET entity == ENTITIES[eidx]
            error == Error("HTTPError", msg)
        IN
        /\ Affordable(ProbeClass(Probe(entity, error)))
        /\ probes' = Append(probes, Probe(entity, error))
        /\ eidx' = eidx + 1
        /\ UNCHANGED <<gae, err, ret, gen, healthVars>>
    /\ UNCHANGED <<op, base, accessible_endpoints, travVars, streamVars>>

\* getattr(self._client, entity).get() raises HTTPError
ProbeHTTPError ==
    /\ ProberActive
    /\ \E msg \in HttpMessages :
        LET entity == ENTITIES[eidx]
            error == Error("HTTPError", msg)
        IN
        /\ Affordable(ProbeClass(Probe(entity, error)))
        /\ probes' = Append(probes, Probe(entity, error))
        /\ IF ~Contains(msg, PermissionText)
           THEN /\ Propagate(error)
                /\ UNCHANGED eidx
           ELSE /\ eidx' = eidx + 1
                /\ UNCHANGED <<gae, err, ret, gen, healthVars>>
    /\ UNCHANGED <<op, base, accessible_endpoints, travVars, streamVars>>

\* getattr(self._client, entity) finds no accessor of that name
ProbeAttributeError ==
    /\ ProberActive
    /\ ENTITIES[eidx] \notin Direct
    /\ LET entity == ENTITIES[eidx]
           error == Error("AttributeError", entity)
       IN
        /\ probes' = Append(probes, Probe(entity, error))
        /\ Propagate(error)
    /\ UNCHANGED <<op, base, eidx, accessible_endpoints, travVars, streamVars>>

\* the loop over ENTITIES is exhausted: the list is returned
GetAccessibleEndpointsReturn ==
    /\ gae = "loop"
    /\ eidx = Len(ENTITIES) + 1
    /\ op = "streams" => gen = "running"
    /\ gae' = "returned"
    /\ ret' = IF op = "get_accessible_endpoints" THEN "returned" ELSE ret
    /\ sidx' = IF op = "streams" THEN 1 ELSE sidx
    /\ UNCHANGED <<op, gen, err, base, eidx, accessible_endpoints, probes,
                   travVars, healthVars, declared, yielded>>

----------------------------------------------------------------------------
(* health_check *)

HealthCheckCall ==
    /\ op = "none"
    /\ op' = "health_check"
    /\ \E b \in {"ok", "denied"} : base' = b
    /\ alive' = TRUE
    /\ error_msg' = None
    /\ StartProber
    /\ UNCHANGED <<gen, err, ret, probes, travVars, streamVars>>

\* faulty variant of HealthCheckReturn: alive is left True on an empty list
HealthCheckReturn_StaysAlive ==
    /\ op = "health_check"
    /\ gae = "returned"
    /\ ret = "none"
    /\ IF accessible_endpoints = <<>>
       THEN /\ error_msg' = Str(GrantMessage)
            /\ UNCHANGED alive
       ELSE UNCHANGED <<alive, error_msg>>
    /\ ret' = "returned"
    /\ UNCHANGED <<op, gen, err, travVars, probeVars, streamVars>>

\* the try block after get_accessible_endpoints returned, and the return
HealthCheckReturn ==
    /\ op = "health_check"
    /\ gae = "returned"
    /\ ret = "none"
    /\ IF accessible_endpoints = <<>>
       THEN /\ alive' = FALSE
            /\ error_msg' = Str(GrantMessage)
       ELSE UNCHANGED <<alive, error_msg>>
    /\ ret' = "returned"
    /\ UNCHANGED <<op, gen, err, travVars, probeVars, streamVars>>

----------------------------------------------------------------------------
(* streams *)

DeclaredSet ==
    { ENTITIES,
      << <<"jobs">>, <<"events">>, <<"applications", Dot, "interviews">>,
         <<"applications">> >> }

\* the property is read: a generator is created, nothing runs yet
StreamsGet ==
    /\ op = "none"
    /\ op' = "streams"
    /\ \E b \in {"ok", "denied"} : base' = b
    /\ \E d \in DeclaredSet : declared' = d
    /\ gen' = "suspended"
    /\ UNCHANGED <<err, ret, gae, eidx, accessible_endpoints, probes, travVars,
                   healthVars, sidx, yielded>>

\* first pull: accessible_endpoints = self.get_accessible_endpoints()
StreamsStart ==
    /\ op = "streams"
    /\ gen = "running"
    /\ gae = "none"
    /\ StartProber
    /\ UNCHANGED <<op, gen, err, ret, base, probes, travVars, healthVars, streamVars>>

\* faulty variant of StreamsNext: every declared descriptor is delivered
StreamsNext_NoFilter ==
    /\ op = "streams"
    /\ gen = "running"
    /\ gae = "returned"
    /\ sidx \in 1..Len(declared)
    /\ LET stream == declared[sidx] IN
        /\ yielded' = Append(yielded, stream)
        /\ gen' = "suspended"
    /\ sidx' = sidx + 1
    /\ UNCHANGED <<op, err, ret, declared, travVars, probeVars, healthVars>>

\* for stream in super().streams: if stream.name in accessible_endpoints: yield
StreamsNext ==
    /\ op = "streams"
    /\ gen = "running"
    /\ gae = "returned"
    /\ sidx \in 1..Len(declared)
    /\ LET stream == declared[sidx] IN
       IF stream \in Range(accessible_endpoints)
       THEN /\ yielded' = Append(yielded, stream)
            /\ gen' = "suspended"
       ELSE UNCHANGED <<yielded, gen>>
    /\ sidx' = sidx + 1
    /\ UNCHANGED <<op, err, ret, declared, travVars, probeVars, healthVars>>

\* super().streams is exhausted
StreamsEnd ==
    /\ op = "streams"
    /\ gen = "running"
    /\ gae = "returned"
    /\ sidx = Len(declared) + 1
    /\ gen' = "done"
    /\ UNCHANGED <<op, err, ret, travVars, probeVars, healthVars, streamVars>>

----------------------------------------------------------------------------
(* What the remote collections hold, independently of any traversal *)

\* pages 1..n of an accessor's collection, concatenated
RECURSIVE PagesUpTo(_, _)
PagesUpTo(acc, n) ==
    IF n = 0 THEN <<>> ELSE PagesUpTo(acc, n - 1) \o Page(acc, n)

\* every record of an accessor's collection, in page and in-page order
Collection(acc) == PagesUpTo(acc, NPages(acc))

IsPrefix(s, t) == Len(s) <= Len(t) /\ s = SubSeq(t, 1, Len(s))

Segments == Len(Split(name))

\* every fetch issued so far returned a batch
NoFetchFailed == \A k \in 1..Len(calls) : calls[k].error = NoError

----------------------------------------------------------------------------
(* Claims about list() and paginator *)

\* C1: for a name without a dot and an accessor whose fetches succeed, a fully consumed list(name) has delivered
\* exactly the concatenation of pages 1..N in order, each record once, with
\* one get followed by exactly N-1 get_next, all on the root accessor; at no
\* time are more than N fetches issued (none after the flag turned false),
\* and what has been delivered so far is always a prefix of that result.
C1_SimpleListYieldsAllPages ==
    (op = "list" /\ Segments = 1 /\ NoFetchFailed) =>
        /\ IsPrefix(out, Collection(RootAcc))
        /\ Len(calls) <= NPages(RootAcc)
        /\ \A k \in 1..Len(calls) :
              /\ calls[k].acc = RootAcc
              /\ calls[k].op = IF k = 1 THEN "get" ELSE "get_next"
        /\ gen # "raised"
        /\ gen = "done" =>
              /\ out = Collection(RootAcc)
              /\ Len(calls) = NPages(RootAcc)

C1_Witness ==
    /\ op = "list"
    /\ Segments = 1
    /\ gen = "done"
    /\ NPages(RootAcc) >= 2
    /\ Len(out) >= 2 * NPages(RootAcc)
    /\ Len(calls) = NPages(RootAcc)

\* C2: for a compound name, every record delivered by list(name) is a record
\* of the last relation of the chain, never a parent record, whichever parent
\* page it comes from.
C2_OnlyLeafRecords ==
    (op = "list" /\ Segments >= 2) =>
        \A k \in 1..Len(out) : Level(out[k]) = Segments

\* C3: for a two-level name whose parent collection is one batch of M
\* records, each parent having K children, a fully consumed list(name) has
\* delivered exactly M*K records, the c-th child of the p-th parent at
\* position (p-1)*K + c.
C3_ParentMajorOrder ==
    (op = "list" /\ Segments = 2 /\ NPages(RootAcc) = 1 /\ gen = "done") =>
        LET parents == Collection(RootAcc)
            M == Len(parents)
            K == shape.pages[2] * shape.rows[2]
        IN /\ Len(out) = M * K
           /\ \A p \in 1..M : \A c \in 1..K :
                 out[(p - 1) * K + c] = Collection(parents[p])[c]

C3_Witness ==
    /\ op = "list"
    /\ Segments = 2
    /\ NPages(RootAcc) = 1
    /\ gen = "done"
    /\ NRows(RootAcc) >= 2
    /\ shape.pages[2] >= 2
    /\ shape.rows[2] >= 1
    /\ Len(out) = NRows(RootAcc) * shape.pages[2] * shape.rows[2]

\* C9: for a name of three or more segments and fetches that succeed, list descends through every
\* relation and delivers records of the last relation without raising.
C9_DeepChainDoesNotRaise ==
    (op = "list" /\ Segments >= 3 /\ NoFetchFailed) =>
        /\ gen # "raised"
        /\ \A k \in 1..Len(out) : Level(out[k]) = Segments

----------------------------------------------------------------------------
(* Claims about the access prober, health_check and streams *)

\* the elements of s at the positions in keep, in the order of s
RECURSIVE Restrict(_, _)
Restrict(s, keep) ==
    IF s = <<>> THEN <<>>
    ELSE Restrict(SubSeq(s, 1, Len(s) - 1), keep)
         \o (IF Len(s) \in keep THEN <<s[Len(s)]>> ELSE <<>>)

\* positions of the probes that succeeded
Succeeded == {k \in 1..Len(probes) : probes[k].outcome = NoError}

NoFatalProbe ==
    \A k \in 1..Len(probes) : ProbeClass(probes[k]) \in {"ok", "denied"}

Distinct(s) == \A a, b \in 1..Len(s) : a # b => s[a] # s[b]

\* C4: when every probe succeeds or fails with the permission-denied message,
\* get_accessible_endpoints does not raise, and what it returns is ENTITIES
\* restricted to the entities whose probe succeeded, in catalog order,
\* without duplicates, after one probe of each catalog entity in order.
C4_AccessibleIsCatalogRestricted ==
    (op = "get_accessible_endpoints" /\ NoFatalProbe) =>
        /\ ret # "raised"
        /\ ret = "returned" =>
              /\ Len(probes) = Len(ENTITIES)
              /\ \A k \in 1..Len(probes) : probes[k].key = ENTITIES[k]
              /\ accessible_endpoints = Restrict(ENTITIES, Succeeded)
              /\ Distinct(accessible_endpoints)

C4_Witness ==
    /\ op = "get_accessible_endpoints"
    /\ ret = "returned"
    /\ Len(accessible_endpoints) = Len(ENTITIES) - 2
    /\ ProbeClass(probes[3]) = "denied"
    /\ ProbeClass(probes[16]) = "denied"

\* C5: a probe error whose message lacks the permission-denied text is the
\* last probe issued: get_accessible_endpoints raises that very error at
\* once and returns no list; an error that was passed over has the
\* permission-denied text.
C5_FatalProbeAborts ==
    \A k \in 1..Len(probes) :
        /\ probes[k].key = ENTITIES[k]
        /\ ProbeClass(probes[k]) = "fatal" =>
              /\ k = Len(probes)
              /\ gae = "raised"
              /\ op = "get_accessible_endpoints" =>
                    (ret = "raised" /\ err = probes[k].outcome)
        /\ (probes[k].outcome # NoError /\ (k < Len(probes) \/ gae # "raised")) =>
              /\ probes[k].outcome.type = "HTTPError"
              /\ Contains(probes[k].outcome.msg, PermissionText)

C5_Witness ==
    /\ op = "get_accessible_endpoints"
    /\ ret = "raised"
    /\ Len(probes) = 5
    /\ ProbeClass(probes[2]) = "denied"
    /\ err = Error("HTTPError", <<"500", "This API Key", "does not have permission">>)

\* C6: when no probe fails fatally, health_check returns (True, None) if some
\* probe succeeded and (False, the grant-permissions message) if none did;
\* in every result alive is True exactly when the message is None.
C6_HealthCheckResult ==
    (op = "health_check" /\ ret = "returned") =>
        /\ alive <=> error_msg.isNone
        /\ NoFatalProbe =>
              IF Succeeded # {}
              THEN alive /\ error_msg = None
              ELSE ~alive /\ error_msg = Str(GrantMessage)

C6_Witness ==
    /\ op = "health_check"
    /\ ret = "returned"
    /\ NoFatalProbe
    /\ Succeeded = {}
    /\ ~alive
    /\ error_msg = Str(GrantMessage)

\* C7: health_check never raises because of a probe failure: when a probe
\* fails with an error other than the permission-denied one, health_check
\* returns (False, that error's message).
C7_HealthCheckNeverRaises ==
    (op = "health_check" /\ gae = "raised") =>
        /\ ret = "returned"
        /\ ~alive
        /\ error_msg = Str(probes[Len(probes)].outcome.msg)

\* the declared descriptors whose name was probed successfully
AccessibleDeclared ==
    LET ok == {probes[k].key : k \in Succeeded} IN
    Restrict(declared, {k \in 1..Len(declared) : declared[k] \in ok})

\* C8: streams delivers exactly the declared descriptors whose name is in
\* the accessible list of that call, each once, in declared order; nothing
\* is delivered before every catalog entity has been probed.
C8_StreamsFiltersDeclared ==
    (op = "streams") =>
        /\ yielded # <<>> => (gae = "returned" /\ Len(probes) = Len(ENTITIES))
        /\ gae = "returned" => IsPrefix(yielded, AccessibleDeclared)
        /\ gen = "done" => yielded = AccessibleDeclared

C8_Witness ==
    /\ op = "streams"
    /\ gen = "done"
    /\ declared # ENTITIES
    /\ yielded = << <<"jobs">>, <<"applications">> >>

\* C10: every catalog entity, the dotted ones included, is probed on the
\* accessor of the root segment of its name, and the lookup of the accessor
\* never fails.
C10_ProbeOnRootAccessor ==
    \A k \in 1..Len(probes) :
        /\ probes[k].key = Head(Split(ENTITIES[k]))
        /\ probes[k].outcome.type # "AttributeError"

----------------------------------------------------------------------------
(* Claims about failures, laziness and parameters of the traversal *)

\* the number of the page that fetch k asked its accessor for
PageOf(k) == Cardinality({j \in 1..k : calls[j].acc = calls[k].acc})

\* fetch k is the root get of a compound name: its batch is the one the
\* for loop recurses over
ParentPage(k) ==
    calls[k].op = "get" /\ calls[k].acc = RootAcc /\ Segments >= 2

\* the records of the pages fetched successfully by fetches 1..n, in order;
\* with all = FALSE the batch that is recursed over is left out
RECURSIVE FetchedRecords(_, _)
FetchedRecords(n, all) ==
    IF n = 0 THEN <<>>
    ELSE FetchedRecords(n - 1, all)
         \o (IF calls[n].error # NoError \/ (~all /\ ParentPage(n))
             THEN <<>>
             ELSE Page(calls[n].acc, PageOf(n)))

\* a fetch that raised is the last fetch, its error is the one the consumer
\* gets at the pull that triggered it, and `delivered` is what was delivered
FailureSurfaces(k, delivered) ==
    /\ k = Len(calls)
    /\ gen = "raised"
    /\ err = calls[k].error
    /\ pulls = Len(out) + 1
    /\ out = delivered

\* C11 as stated: when get or get_next raises, the same error reaches the
\* consumer at that pull, no further fetch is issued, and the records
\* delivered before are exactly those of the pages fetched successfully
\* before.
C11_FailureAfterAllFetchedPages ==
    op = "list" =>
        \A k \in 1..Len(calls) :
            calls[k].error # NoError =>
                FailureSurfaces(k, FetchedRecords(k - 1, TRUE))

\* C11 amended: as above, but the records delivered before are those of the
\* pages fetched successfully before other than the batch of the root get of
\* a compound name, whose records are recursed over and not delivered.
C11_FailureAfterDeliveredPages ==
    op = "list" =>
        \A k \in 1..Len(calls) :
            calls[k].error # NoError =>
                FailureSurfaces(k, FetchedRecords(k - 1, FALSE))

C11_Witness ==
    /\ op = "list"
    /\ Segments = 2
    /\ gen = "raised"
    /\ Len(calls) >= 4
    /\ calls[Len(calls)].error # NoError
    /\ calls[Len(calls)].op = "get_next"
    /\ Len(out) >= 2

\* the batch that fetch c's accessor returned last
CurrentPage(c) == Page(c.acc, cursor[c.acc])

\* every record of the current page has reached the consumer
CurrentPageDelivered(c) ==
    \A r \in Range(CurrentPage(c)) : r \in Range(out)

\* every record of the current page has had its child accessor fetched
\* until it reports no records remaining
CurrentPageRecursed(c) ==
    \A r \in Range(CurrentPage(c)) :
        r \in DOMAIN cursor /\ ~records_remaining(r)

\* the current page of fetch c's accessor is the batch of the root get of a
\* compound name, the one the for loop recurses over
RecursedBatch(c) ==
    c.acc = RootAcc /\ Segments >= 2 /\ cursor[RootAcc] = 1

\* one step of a demand-driven traversal.  With literal = TRUE a get_next
\* requires every record of the current page to have been delivered; with
\* literal = FALSE the batch that is recursed over must instead have been
\* recursed over completely, and everything that the earlier fetches
\* returned for delivery must have been delivered.
LazyStep(literal) ==
    /\ (gen # "running" /\ gen' = "running") => pulls' = pulls + 1
    /\ calls' # calls =>
          /\ gen = "running"
          /\ pulls >= 1
          /\ pulls = Len(out) + 1
          /\ Len(calls') = Len(calls) + 1
          /\ SubSeq(calls', 1, Len(calls)) = calls
          /\ LET c == calls'[Len(calls')] IN
             /\ (c.op = "get" /\ c.acc # RootAcc) =>
                   \A a \in (DOMAIN cursor) \ {RootAcc} : ~records_remaining(a)
             /\ c.op = "get_next" =>
                   IF literal
                   THEN CurrentPageDelivered(c)
                   ELSE /\ IF RecursedBatch(c)
                           THEN CurrentPageRecursed(c)
                           ELSE CurrentPageDelivered(c)
                        /\ out = FetchedRecords(Len(calls), FALSE)
             /\ (c.op = "get" /\ ~literal) =>
                   out = FetchedRecords(Len(calls), FALSE)

\* C12 as stated: the traversal is demand-driven: no fetch is issued before
\* the consumer's first pull; get_next for the next page is issued only
\* after every record of the current page has been delivered; the child
\* accessor of the next parent is fetched only after the child sequence of
\* the earlier parents is exhausted; and no fetch is issued while the
\* consumer is not pulling.
C12_DemandDrivenEveryPageDelivered == [][op' = "list" => LazyStep(TRUE)]_vars

\* C12 amended: as above, except that the batch returned by the root get of
\* a compound name is never delivered: the root get_next that follows it is
\* issued only after every record of that batch has had its child accessor
\* fetched to exhaustion; every other get_next, and every get, is issued
\* only after every record of the pages fetched before for delivery has
\* been delivered.
C12_DemandDriven == [][op' = "list" => LazyStep(FALSE)]_vars

C12_Witness ==
    /\ op = "list"
    /\ Segments = 2
    /\ gen = "suspended"
    /\ pulls = Len(out)
    /\ Len(calls) >= 5
    /\ Len(out) >= 3
    /\ calls[Len(calls)] = Call("get_next", RootAcc, EmptyDict, NoError)
    /\ \E k \in 1..(Len(calls) - 1) :
          /\ calls[k] = Call("get_next", <<1, 1>>, EmptyDict, NoError)
          /\ calls[k + 1].acc = <<1, 2>>
    /\ out[Len(out)] = <<2, 1>>

\* the whole child collections of the given parent records, parent by parent
RECURSIVE ChildrenOf(_)
ChildrenOf(parents) ==
    IF parents = <<>> THEN <<>>
    ELSE Collection(Head(parents)) \o ChildrenOf(Tail(parents))

\* C13: in nested traversal, for every parent record the child accessor's
\* first page and every further page are delivered, in order, before any
\* record that belongs to the next parent: a fully consumed two-level
\* traversal has delivered the whole child collection of each parent record
\* of the parent collection, parent by parent.
C13_EveryParentPaginated ==
    (op = "list" /\ Segments = 2 /\ gen = "done") =>
        out = ChildrenOf(Collection(RootAcc))

\* C14: every get issued during a list call, on the root accessor and on
\* every child accessor, carries per_page = 100, whatever the caller passed.
C14_EveryGetHasPageSize ==
    op = "list" =>
        \A k \in 1..Len(calls) :
            calls[k].op = "get" =>
                /\ "per_page" \in DOMAIN calls[k].params
                /\ calls[k].params["per_page"] = DEFAULT_ITEMS_PER_PAGE

\* C15: the parameters of the root accessor's get are the caller's keyword
\* arguments with the page size set, and nested_names is never among the
\* parameters of any get.
C15_GetParamsAreCallerFilters ==
    op = "list" =>
        \A k \in 1..Len(calls) :
            calls[k].op = "get" =>
                /\ "nested_names" \notin DOMAIN calls[k].params
                /\ calls[k].acc = RootAcc =>
                      calls[k].params =
                          DictPut(kwargs, "per_page", DEFAULT_ITEMS_PER_PAGE)

----------------------------------------------------------------------------
Next ==
    \/ ListCall
    \/ Pull
    \/ ListBody
    \/ GetFirst
    \/ GetFirstRaises
    \/ ForRow
    \/ ForEnd
    \/ YieldRow
    \/ YieldEnd
    \/ GetNext
    \/ GetNextRaises
    \/ Return
    \/ ListEnd
    \/ GetAccessibleEndpointsCall
    \/ ProbeOk
    \/ ProbeHTTPError
    \/ ProbeAttributeError
    \/ GetAccessibleEndpointsReturn
    \/ HealthCheckCall
    \/ HealthCheckReturn
    \/ StreamsGet
    \/ StreamsStart
    \/ StreamsNext
    \/ StreamsEnd

Spec == Init /\ [][Next]_vars

====
